---------------------------- MODULE Spec2Model ----------------------------
(***************************************************************************)
(* A model of WSDOT-GIS/arcgis-core-helper.                                *)
(*                                                                         *)
(*  Part I  (specification Spec): the loader polyfill setup-arcgis-import  *)
(*          (src/unnamed/part_002): evaluation of the module against the   *)
(*          process-wide global object, and calls of the installed async   *)
(*          loader, promise by promise.                                    *)
(*  Part II (specification SpecGen): the declaration-map generators        *)
(*          (src/tools/generate-dts.ts, src/tools/generateArcGISModuleMap  *)
(*          .ts and the older script src/unnamed/part_001) run over a      *)
(*          directory snapshot.                                            *)
(*                                                                         *)
(* Strings the code inspects character by character (file names, paths,    *)
(* file contents, mapping keys) are sequences of one-character strings.    *)
(***************************************************************************)
EXTENDS Integers, Sequences, FiniteSets, TLC

VARIABLES
    \* ---- Part I: the global object and the polyfill module ----
    present,      \* "$arcgis" in global
    binding,      \* the value of global.$arcgis (Undefined when not present)
    heap,         \* the "import" property of every object that has one
    evals,        \* evaluations of setup-arcgis-import so far
    writes,       \* assignments to global.$arcgis made by the polyfill
    exported,     \* importArcGisModules exported by each evaluation
    g0,           \* history: the global binding before the first evaluation
    \* ---- Part I: one call of the installed loader ----
    callForm,     \* "none" | "single" | "multi"
    callIds,      \* the identifiers passed to the call, in order
    imp,          \* imp[i]: the promise of import(callIds[i])
    inner,        \* inner[i]: the promise of the i-th mapped async function
    seen,         \* seen[i]: Promise.all has reacted to inner[i]
    all,          \* the promise of Promise.all
    callP,        \* the promise the call returned to its caller
    settleOrder,  \* history: positions in the order their imports settled
    \* ---- Part II: the generator ----
    tool,         \* which generator script runs
    sep,          \* the platform's path separator (path.sep)
    fs,           \* the snapshot under node_modules/@arcgis/core
    pc,           \* the script's position
    run,          \* the number of the current run
    modules,      \* const modules = getAllDtsModules()
    kinds,        \* the result of hasDefaultExport for each module, as ExportKind
    lines,        \* const lines = [...]
    outFile,      \* the content of outputFile; NoFile before the first write
    prevOut,      \* history: outputFile as the previous run left it
    diag,         \* console.error lines
    summary,      \* summary lines written after the file
    fault,        \* the operation the filesystem refuses, NoFault when none
    err           \* the uncaught error that ended the run, NoError when none

loaderVars == <<present, binding, heap, evals, writes, exported, g0>>
callVars   == <<callForm, callIds, imp, inner, seen, all, callP, settleOrder>>
genVars    == <<tool, sep, fs, pc, run, modules, kinds, lines, outFile, prevOut, diag, summary,
                fault, err>>
vars       == <<loaderVars, callVars, genVars>>

---------------------------------------------------------------------------
(* Bounds of the model.                                                    *)
MaxEvals == 2     \* evaluations of the polyfill module in one process
MaxIds   == 2     \* identifiers in one multi-module call
MaxNodes == 3     \* files and directories in one snapshot
MaxRuns  == 2     \* generator runs over one snapshot

---------------------------------------------------------------------------
(* JavaScript values.  t is the type tag, v and n tell values of one type  *)
(* apart (n: the evaluation or the position that created the value), items *)
(* are an array's elements.                                                *)
JS(t, v, n)  == [t |-> t, v |-> v, n |-> n, items |-> <<>>]
Undefined    == JS("undefined", "", 0)
Null         == JS("null", "", 0)
Empty        == JS("empty", "", 0)            \* a hole of a fresh array
JSArray(s)   == [t |-> "array", v |-> "", n |-> 0, items |-> s]
NoExport     == JS("threw", "TypeError", 0)   \* evaluation threw before exporting

CdnObject    == JS("object", "cdn", 0)        \* $arcgis as the CDN-hosted SDK defines it
CdnImport    == JS("function", "cdnImport", 0)
BareObject   == JS("object", "bare", 0)       \* some $arcgis without an import member
PolyfillObject(k) == JS("object", "polyfill", k)
PolyfillImport(k) == JS("function", "polyfillImport", k)

IsPolyfillImport(f) == f.t = "function" /\ f.v = "polyfillImport"

\* obj.import
GetImport(h, obj) == IF obj \in DOMAIN h THEN h[obj] ELSE Undefined


---------------------------------------------------------------------------
(* The host's module loader, import(id): what the identifiers the model    *)
(* uses resolve to.  A module namespace object is JS("module", id, 0).     *)
ModuleIds == {"Map", "locateBetweenOperator", "nullDefault", "zeroDefault", "missing"}

Resolvable(id) == id # "missing"

\* the module has a binding named default
HasDefaultBinding(id) == id \in {"Map", "nullDefault", "zeroDefault"}

DefaultBinding(id) ==
    CASE id = "Map"          -> JS("class", "esri.Map", 0)
      [] id = "nullDefault"  -> Null
      [] id = "zeroDefault"  -> JS("number", "0", 0)
      [] OTHER               -> Undefined

NamedExports(id) ==
    CASE id = "locateBetweenOperator" -> {"execute", "executeMany"}
      [] id = "nullDefault"           -> {"helper"}
      [] OTHER                        -> {}

Namespace(id)      == JS("module", id, 0)
\* the error the i-th import of a call rejects with
ImportError(id, i) == JS("error", id, i)

\* ns.default
GetDefault(ns) == IF HasDefaultBinding(ns.v) THEN DefaultBinding(ns.v) ELSE Undefined

\* what import(callIds[i]) settles to
ImportOutcome(id, i) ==
    IF Resolvable(id) THEN [st |-> "fulfilled", val |-> Namespace(id)]
                      ELSE [st |-> "rejected",  val |-> ImportError(id, i)]

Pending   == [st |-> "pending", val |-> Undefined]
Unstarted == [st |-> "unstarted", val |-> Undefined]
Settled(p) == p.st \in {"fulfilled", "rejected"}

---------------------------------------------------------------------------
(* setup-arcgis-import, module evaluation.                                 *)

\* typeof $arcgis !== "undefined"
TypeofDefined(p, b) == p /\ b.t # "undefined"

\* variants of the guard: none at all; the typeof test of line 23 reused
ShouldDefineAlways(p, b) == TRUE
ShouldDefineTypeof(p, b) == ~TypeofDefined(p, b)
\* !("$arcgis" in global)
ShouldDefine(p, b) == ~p

\* the conditional expression that initialises importArcGisModules
\* (NoExport: reading a member of null throws)
ImportArcGisModulesValue(p, b, h, k) ==
    IF TypeofDefined(p, b)
      THEN IF b.t = "null" THEN NoExport ELSE GetImport(h, b)
      ELSE PolyfillImport(k)

Evaluate ==
    /\ evals < MaxEvals
    /\ LET k == evals + 1
           f == ImportArcGisModulesValue(present, binding, heap, k)
       IN /\ evals' = k
          /\ exported' = Append(exported, f)
          /\ IF f # NoExport /\ ShouldDefine(present, binding)
               THEN /\ present' = TRUE
                    /\ binding' = PolyfillObject(k)
                    /\ heap' = (PolyfillObject(k) :> f) @@ heap
                    /\ writes' = writes + 1
               ELSE UNCHANGED <<present, binding, heap, writes>>
    /\ UNCHANGED <<g0, callVars, genVars>>

---------------------------------------------------------------------------
(* The installed loader: async (moduleNames) => ...                        *)

\* variant: if (m.default) return m.default; return m;
UnwrapTruthy(ns) ==
    IF GetDefault(ns).t \notin {"null", "undefined"} /\ GetDefault(ns) # JS("number", "0", 0)
      THEN GetDefault(ns) ELSE ns
\* if (m.default != null) return m.default; return m;
Unwrap(ns) == IF GetDefault(ns).t \notin {"null", "undefined"} THEN GetDefault(ns) ELSE ns

\* variant: a loop that awaits each import before it starts the next
StartImportsOneByOne(ids) == [i \in 1..Len(ids) |-> IF i = 1 THEN Pending ELSE Unstarted]
\* moduleNames.map(async (m) => { ... await import(m) ... }): every mapped
\* function runs, synchronously, up to its await, so every import is started
StartImports(ids) == [i \in 1..Len(ids) |-> Pending]

\* Promise.all(promises)
PromiseAll(n) ==
    [st |-> IF n = 0 THEN "fulfilled" ELSE "pending",
     values |-> [i \in 1..n |-> Empty], remaining |-> n, reason |-> Undefined]

\* variant: values collected in the order the promises are fulfilled
PromiseAllInSettleOrder(a, i, v) ==
    LET k == Len(a.values) - a.remaining + 1
    IN [a EXCEPT !.values[k] = v, !.remaining = @ - 1,
                 !.st = IF a.st = "pending" /\ a.remaining = 1 THEN "fulfilled" ELSE @]
\* the reaction of Promise.all to the fulfilment of its i-th promise
PromiseAllOnFulfilled(a, i, v) ==
    [a EXCEPT !.values[i] = v, !.remaining = @ - 1,
              !.st = IF a.st = "pending" /\ a.remaining = 1 THEN "fulfilled" ELSE @]

\* variant: a rejection kept as the element's result (as Promise.allSettled)
PromiseAllSettledOnRejected(a, i, r) == PromiseAllOnFulfilled(a, i, r)
\* the reaction of Promise.all to the rejection of its i-th promise
PromiseAllOnRejected(a, i, r) ==
    IF a.st = "pending" THEN [a EXCEPT !.st = "rejected", !.reason = r] ELSE a

\* $arcgis.import is the function the polyfill installed
Installed == present /\ IsPolyfillImport(GetImport(heap, binding))

\* a call can be made when the previous one has run to its end; calls share
\* no state, so the model follows one call at a time
CallIdle ==
    \/ callForm = "none"
    \/ /\ Settled(callP)
       /\ \A i \in DOMAIN imp : Settled(imp[i])
       /\ \A i \in DOMAIN inner : Settled(inner[i]) /\ seen[i]

\* the caller holds a function the polyfill defined: $arcgis.import, or the
\* module's export importArcGisModules
Callable == Installed \/ \E k \in DOMAIN exported : IsPolyfillImport(exported[k])

\* the identifier sequences a multi-module call is made with
IdSeqs == UNION { [1..n -> ModuleIds] : n \in 0..MaxIds }

\* $arcgis.import("id"): runs up to await import(moduleNames)
CallSingle ==
    /\ Callable /\ CallIdle
    /\ \E id \in ModuleIds :
          /\ callIds' = <<id>>
          /\ imp' = StartImports(<<id>>)
    /\ callForm' = "single"
    /\ inner' = <<>>
    /\ seen' = <<>>
    /\ all' = PromiseAll(0)
    /\ callP' = Pending
    /\ settleOrder' = <<>>
    /\ UNCHANGED <<loaderVars, genVars>>

\* $arcgis.import([...]): runs up to await Promise.all(moduleNames.map(...))
CallMulti ==
    /\ Callable /\ CallIdle
    /\ \E ids \in IdSeqs :
          /\ callIds' = ids
          /\ imp' = StartImports(ids)
          /\ inner' = [i \in 1..Len(ids) |-> Pending]
          /\ seen' = [i \in 1..Len(ids) |-> FALSE]
          /\ all' = PromiseAll(Len(ids))
    /\ callForm' = "multi"
    /\ callP' = Pending
    /\ settleOrder' = <<>>
    /\ UNCHANGED <<loaderVars, genVars>>

\* the host settles one import
ImportSettle(i) ==
    /\ callForm # "none" /\ i \in DOMAIN imp /\ imp[i].st = "pending"
    /\ imp' = [imp EXCEPT ![i] = ImportOutcome(callIds[i], i)]
    /\ settleOrder' = Append(settleOrder, i)
    /\ UNCHANGED <<loaderVars, genVars, callForm, callIds, inner, seen, all, callP>>

\* single form: the function resumes after await import(moduleNames)
SingleResume ==
    /\ callForm = "single" /\ callP.st = "pending" /\ Settled(imp[1])
    /\ callP' = IF imp[1].st = "fulfilled"
                  THEN [st |-> "fulfilled", val |-> Unwrap(imp[1].val)]
                  ELSE [st |-> "rejected", val |-> imp[1].val]
    /\ UNCHANGED <<loaderVars, genVars, callForm, callIds, imp, inner, seen, all,
                   settleOrder>>

\* multi form: the i-th mapped function resumes after await import(m)
InnerResume(i) ==
    /\ callForm = "multi" /\ i \in DOMAIN inner
    /\ inner[i].st = "pending" /\ Settled(imp[i])
    /\ inner' = [inner EXCEPT ![i] =
                   IF imp[i].st = "fulfilled"
                     THEN [st |-> "fulfilled", val |-> Unwrap(imp[i].val)]
                     ELSE [st |-> "rejected", val |-> imp[i].val]]
    /\ UNCHANGED <<loaderVars, genVars, callForm, callIds, imp, seen, all, callP,
                   settleOrder>>

\* multi form: Promise.all reacts to the i-th mapped function's promise
AllReact(i) ==
    /\ callForm = "multi" /\ i \in DOMAIN inner
    /\ Settled(inner[i]) /\ ~seen[i]
    /\ seen' = [seen EXCEPT ![i] = TRUE]
    /\ all' = IF inner[i].st = "fulfilled"
                THEN PromiseAllOnFulfilled(all, i, inner[i].val)
                ELSE PromiseAllOnRejected(all, i, inner[i].val)
    /\ UNCHANGED <<loaderVars, genVars, callForm, callIds, imp, inner, callP,
                   settleOrder>>

\* multi form: the function resumes after await Promise.all(...); return results
MultiResume ==
    /\ callForm = "multi" /\ callP.st = "pending" /\ all.st # "pending"
    /\ callP' = IF all.st = "fulfilled"
                  THEN [st |-> "fulfilled", val |-> JSArray(all.values)]
                  ELSE [st |-> "rejected", val |-> all.reason]
    /\ UNCHANGED <<loaderVars, genVars, callForm, callIds, imp, inner, seen, all,
                   settleOrder>>

---------------------------------------------------------------------------
(* Specification of Part I.                                                *)

\* what global.$arcgis can be before the polyfill is evaluated: absent,
\* present with the value undefined or null, the CDN's loader object, or an
\* object without an import member
InitialGlobals ==
    { [present |-> FALSE, binding |-> Undefined,  import |-> Undefined],
      [present |-> TRUE,  binding |-> Undefined,  import |-> Undefined],
      [present |-> TRUE,  binding |-> Null,       import |-> Undefined],
      [present |-> TRUE,  binding |-> CdnObject,  import |-> CdnImport],
      [present |-> TRUE,  binding |-> BareObject, import |-> Undefined] }

\* outputFile does not exist (a value of the shape of a file's lines)
NoFile == << [form |-> "<no file>", indent |-> "", key |-> <<>>, import |-> <<>>] >>

\* a filesystem operation on a path of names: readdirSync or statSync
FsOp(op, path) == [op |-> op, path |-> path]
NoFault == FsOp("none", <<>>)
NoError == FsOp("none", <<>>)

GenIdle ==
    /\ tool = "none" /\ sep = "/" /\ fs = <<>> /\ pc = "idle" /\ run = 0
    /\ modules = <<>> /\ kinds = <<>> /\ lines = <<>>
    /\ outFile = NoFile /\ prevOut = NoFile
    /\ diag = <<>> /\ summary = <<>>
    /\ fault = NoFault /\ err = NoError

CallNone ==
    /\ callForm = "none" /\ callIds = <<>> /\ imp = <<>> /\ inner = <<>>
    /\ seen = <<>> /\ all = PromiseAll(0) /\ callP = Pending /\ settleOrder = <<>>

Init ==
    /\ g0 \in InitialGlobals
    /\ present = g0.present
    /\ binding = g0.binding
    /\ heap = IF g0.binding = CdnObject THEN (CdnObject :> CdnImport) ELSE <<>>
    /\ evals = 0 /\ writes = 0 /\ exported = <<>>
    /\ CallNone
    /\ GenIdle

Next ==
    \/ Evaluate
    \/ CallSingle
    \/ CallMulti
    \/ \E i \in 1..(MaxIds + 1) : ImportSettle(i)
    \/ SingleResume
    \/ \E i \in 1..(MaxIds + 1) : InnerResume(i)
    \/ \E i \in 1..(MaxIds + 1) : AllReact(i)
    \/ MultiResume

Spec == Init /\ [][Next]_vars

---------------------------------------------------------------------------
(* Claims about the polyfill and the installed loader (checked under Spec) *)

\* C1: if "$arcgis" is already in global before the polyfill is evaluated,
\* then after any number of evaluations global.$arcgis is the same value, its
\* import member is the same function, and the polyfill never assigned it.
C1_PresentBindingUntouched ==
    g0.present =>
        /\ present
        /\ binding = g0.binding
        /\ GetImport(heap, binding) = g0.import
        /\ writes = 0

C1_Witness ==
    /\ g0.present /\ g0.binding = CdnObject /\ evals >= 1
    /\ GetImport(heap, binding) = CdnImport

\* C2: if "$arcgis" is absent at the first evaluation, then in every state
\* after it $arcgis is an object whose import is a function (Set, never
\* Unset again), and however often the polyfill is evaluated the binding is
\* assigned at most once (exactly once in this case).
C2_SetOncePermanently ==
    /\ writes <= 1
    /\ (~g0.present /\ evals >= 1) =>
          /\ present
          /\ binding.t = "object"
          /\ GetImport(heap, binding).t = "function"
          /\ writes = 1

C2_Witness == ~g0.present /\ evals >= 2 /\ writes = 1 /\ Installed

\* what the claims call the resolution of an identifier: its default binding
\* when the module has one that is neither null nor undefined, else the
\* module namespace object
ExpectedResolution(id) ==
    IF HasDefaultBinding(id) /\ DefaultBinding(id) # Null /\ DefaultBinding(id) # Undefined
      THEN DefaultBinding(id)
      ELSE Namespace(id)

\* C3: when a multi-module call resolves, the result has the length of the
\* identifier sequence and position i holds the resolution of identifier i,
\* whatever the order in which the imports settled.
C3_PositionalResults ==
    (callForm = "multi" /\ callP.st = "fulfilled") =>
        /\ callP.val.t = "array"
        /\ Len(callP.val.items) = Len(callIds)
        /\ \A i \in 1..Len(callIds) : callP.val.items[i] = ExpectedResolution(callIds[i])

\* B settled before A, and the result is still <<A, B>>
C3_Witness ==
    /\ callForm = "multi" /\ callP.st = "fulfilled"
    /\ callIds = <<"Map", "locateBetweenOperator">>
    /\ settleOrder = <<2, 1>>
    /\ callP.val.items = <<JS("class", "esri.Map", 0), Namespace("locateBetweenOperator")>>

\* C4: in the single form, and for each element of the multi form, the result
\* is the module's default binding itself when that is neither null nor
\* undefined, and otherwise the module namespace object itself (whose members
\* are the named exports).
C4_DefaultOrNamespace ==
    /\ (callForm = "single" /\ callP.st = "fulfilled") =>
          LET id == callIds[1] IN
          IF HasDefaultBinding(id) /\ DefaultBinding(id).t \notin {"null", "undefined"}
            THEN callP.val = DefaultBinding(id)
            ELSE callP.val = Namespace(id) /\ NamedExports(callP.val.v) = NamedExports(id)
    /\ callForm = "multi" =>
          \A i \in DOMAIN inner : inner[i].st = "fulfilled" =>
              LET id == callIds[i] IN
              IF HasDefaultBinding(id) /\ DefaultBinding(id).t \notin {"null", "undefined"}
                THEN inner[i].val = DefaultBinding(id)
                ELSE inner[i].val = Namespace(id)

\* a default of 0 is returned itself, a null default yields the namespace
C4_Witness ==
    /\ callForm = "multi" /\ callP.st = "fulfilled"
    /\ callIds = <<"zeroDefault", "nullDefault">>
    /\ callP.val.items = <<JS("number", "0", 0), Namespace("nullDefault")>>

\* C5: a call is rejected only with the very error one of its imports was
\* rejected with; once every step of the call has run, a call with a failed
\* import is rejected; a resolved call has every import fulfilled and, in the
\* multi form, a complete result sequence; each import is issued once.
CallQuiescent ==
    /\ \A i \in DOMAIN imp : Settled(imp[i])
    /\ \A i \in DOMAIN inner : Settled(inner[i]) /\ seen[i]
    /\ Settled(callP)

C5_RejectsWithUnderlyingError ==
    callForm # "none" =>
        /\ Len(imp) = Len(callIds)
        /\ callP.st = "rejected" =>
              \E i \in DOMAIN imp : imp[i].st = "rejected" /\ callP.val = imp[i].val
        /\ callP.st = "fulfilled" =>
              /\ \A i \in DOMAIN imp : imp[i].st = "fulfilled"
              /\ callForm = "multi" =>
                    /\ Len(callP.val.items) = Len(callIds)
                    /\ \A i \in DOMAIN imp : callP.val.items[i].t \notin {"empty", "error"}
        /\ (CallQuiescent /\ \E i \in DOMAIN imp : imp[i].st = "rejected") =>
              callP.st = "rejected"

C5_Witness ==
    /\ callForm = "multi" /\ CallQuiescent
    /\ callIds = <<"Map", "missing">>
    /\ callP = [st |-> "rejected", val |-> ImportError("missing", 2)]

\* C9 (as stated): the multi form starts every import before it awaits, and
\* does not settle, by resolving or by rejecting, until every import settled.
C9_Original ==
    callForm = "multi" =>
        /\ \A i \in DOMAIN imp : imp[i].st # "unstarted"
        /\ Settled(callP) => \A i \in DOMAIN imp : Settled(imp[i])

\* C9 (amended): the multi form starts every import before it awaits; it
\* resolves only after every import has settled (all fulfilled); it rejects
\* only after some import has been rejected, possibly while others are still
\* pending.
C9_StartsAllResolvesAfterAll ==
    callForm = "multi" =>
        /\ Len(imp) = Len(callIds)
        /\ \A i \in DOMAIN imp : imp[i].st # "unstarted"
        /\ callP.st = "fulfilled" => \A i \in DOMAIN imp : Settled(imp[i])
        /\ callP.st = "rejected" => \E i \in DOMAIN imp : imp[i].st = "rejected"

\* the call has been rejected while one of its imports is still pending
C9_Witness ==
    /\ callForm = "multi" /\ callP.st = "rejected"
    /\ \E i \in DOMAIN imp : imp[i].st = "pending"

---------------------------------------------------------------------------
(* Part II: the generators.  Strings are sequences of characters.          *)

DtsSuffix == <<".", "d", ".", "t", "s">>                    \* ".d.ts"
IndexDts  == <<"i", "n", "d", "e", "x", ".", "d", ".", "t", "s">>   \* "index.d.ts"
Marker    == <<"e", "x", "p", "o", "r", "t", " ", "d", "e", "f", "a", "u", "l", "t">>   \* "export default"
PkgPrefix == <<"@", "a", "r", "c", "g", "i", "s", "/", "c", "o", "r", "e", "/">>   \* "@arcgis/core/"
JsSuffix  == <<".", "j", "s">>
Backslash == "\\"
Slash     == "/"

\* entry.endsWith(suffix)
EndsWith(str, suffix) ==
    /\ Len(str) >= Len(suffix)
    /\ SubSeq(str, Len(str) - Len(suffix) + 1, Len(str)) = suffix

\* content.includes(needle): the first offset at or after k where needle
\* occurs, as String.prototype.indexOf searches
RECURSIVE IndexOfFrom(_, _, _)
IndexOfFrom(str, needle, k) ==
    IF k + Len(needle) > Len(str) THEN -1
    ELSE IF SubSeq(str, k + 1, k + Len(needle)) = needle THEN k
    ELSE IndexOfFrom(str, needle, k + 1)

StartsWith(str, needle) ==
    Len(str) >= Len(needle) /\ SubSeq(str, 1, Len(needle)) = needle

\* content.includes(needle)
Includes(str, needle) == IndexOfFrom(str, needle, 0) >= 0

\* variant: str.replace(/\\/, "/"), without the g flag
ReplaceFirstBackslash(str) ==
    IF \E i \in 1..Len(str) : str[i] = Backslash
      THEN LET i == CHOOSE i \in 1..Len(str) :
                        str[i] = Backslash /\ \A j \in 1..(i - 1) : str[j] # Backslash
           IN [str EXCEPT ![i] = Slash]
      ELSE str
\* str.replace(/\\/g, "/")
ReplaceBackslashes(str) ==
    [i \in 1..Len(str) |-> IF str[i] = Backslash THEN Slash ELSE str[i]]

\* str.replace(/\.d\.ts$/, "")
StripDts(str) ==
    IF EndsWith(str, DtsSuffix) THEN SubSeq(str, 1, Len(str) - Len(DtsSuffix)) ELSE str

\* join(currentDir, entry) of node:path, for a directory path that is empty or
\* already joined and an entry name without separators
PathJoin(dir, entry, s) == IF dir = <<>> THEN entry ELSE dir \o <<s>> \o entry

---------------------------------------------------------------------------
(* Directory snapshots.  A listing is what readdirSync returns for one     *)
(* directory, in its order; an entry carries what statSync and             *)
(* readFileSync tell about it.                                             *)
File(n, t, r) == [name |-> n, isDir |-> FALSE, text |-> t, readable |-> r, kids |-> <<>>]
Dir(n, k)     == [name |-> n, isDir |-> TRUE, text |-> <<>>, readable |-> TRUE, kids |-> k]

FileNames == { <<"a", ".", "d", ".", "t", "s">>,          \* "a.d.ts"
               <<"a", ".", "j", "s", ".", "d", ".", "t", "s">>,   \* "a.js.d.ts"
               IndexDts,
               <<"x", "d", ".", "t", "s">> }              \* "xd.ts"
DirNames  == { <<"s", "u", "b">>,                          \* "sub"
               <<"t", ".", "d", ".", "t", "s">> }           \* "t.d.ts", a directory
Texts     == { <<"/", "/", "e", "x", "p", "o", "r", "t", " ", "d", "e", "f", "a", "u", "l", "t">>,   \* "//export default"
               <<"e", "x", "p", "o", "r", "t", " ", " ", "d", "e", "f", "a", "u", "l", "t">> }  \* "export  default"

FileEntries ==
    { File(n, t, TRUE) : n \in FileNames, t \in Texts }
        \cup { File(<<"a", ".", "d", ".", "t", "s">>, Marker, FALSE) }

NamesOf(listing) == { listing[i].name : i \in DOMAIN listing }

\* the listings with exactly n files and directories below them, names
\* distinct within each directory
RECURSIVE ListingsOfSize(_)
EntriesOfSize(k) ==
    (IF k = 1 THEN FileEntries ELSE {})
        \cup { Dir(n, kids) : n \in DirNames, kids \in ListingsOfSize(k - 1) }
ListingsOfSize(n) ==
    IF n = 0 THEN { <<>> }
    ELSE UNION { UNION { { <<e>> \o rest : rest \in { r \in ListingsOfSize(n - k) :
                                                          e.name \notin NamesOf(r) } }
                         : e \in EntriesOfSize(k) }
                 : k \in 1..n }

Snapshots == UNION { ListingsOfSize(n) : n \in 0..MaxNodes }

---------------------------------------------------------------------------
(* The three scripts.  They share hasDefaultExport and getAllDtsModules    *)
(* and differ in what they emit and where they report.                     *)
GenerateDts     == "tools/generate-dts.ts"
GenerateMap     == "tools/generateArcGISModuleMap.ts"
GenerateMapOld  == "unnamed/part_001"
Tools           == { GenerateDts, GenerateMap, GenerateMapOld }

\* path.sep: posix or win32
Separators == { Slash, Backslash }

\* the entry a path of names leads to (paths are kept as their sequence of
\* names where the code holds the joined string fullEntryPath)
RECURSIVE EntryAt(_, _)
EntryAt(listing, path) ==
    LET i == CHOOSE i \in DOMAIN listing : listing[i].name = Head(path)
    IN IF Len(path) = 1 THEN listing[i] ELSE EntryAt(listing[i].kids, Tail(path))

\* readFileSync(filePath, "utf8"): the text, or a throw
ReadFileSync(snapshot, path) ==
    LET e == EntryAt(snapshot, path)
    IN [ok |-> e.readable, text |-> IF e.readable THEN e.text ELSE <<>>]

\* variant: content.startsWith("export default")
HasDefaultExportAtStart(snapshot, path) ==
    LET r == ReadFileSync(snapshot, path)
    IN IF r.ok THEN StartsWith(r.text, Marker) ELSE FALSE
\* hasDefaultExport(filePath): try { return content.includes("export default") }
\* catch { console.error(...); return false }
HasDefaultExport(snapshot, path) ==
    LET r == ReadFileSync(snapshot, path)
    IN IF r.ok THEN Includes(r.text, Marker) ELSE FALSE

\* entry.endsWith(".d.ts") && entry !== "index.d.ts"
IsModuleFile(entry) == EndsWith(entry, DtsSuffix) /\ entry # IndexDts

\* variant: only the first backslash replaced
ModulePathFirstOnly(entryPath) == ReplaceFirstBackslash(StripDts(entryPath))
\* entryPath.replace(/\.d\.ts$/, "").replace(/\\/g, "/")
ModulePathOf(entryPath) == ReplaceBackslashes(StripDts(entryPath))

\* variant: a subdirectory's modules put before those found so far
ConcatAtFront(mods, found) == found \o mods
\* modules = modules.concat(getAllDtsModules(entryPath))
ConcatModules(mods, found) == mods \o found

\* getAllDtsModules(currentDir): the for loop from its i-th entry on, mods
\* being the modules pushed so far
RECURSIVE ScanFrom(_, _, _, _, _, _)
GetAllDtsModules(currentDir, path, listing, s) == ScanFrom(currentDir, path, listing, s, 1, <<>>)
ScanFrom(currentDir, path, listing, s, i, mods) ==
    IF i > Len(listing) THEN mods
    ELSE LET entry     == listing[i]
             entryPath == PathJoin(currentDir, entry.name, s)
             fullEntryPath == Append(path, entry.name)
         IN ScanFrom(currentDir, path, listing, s, i + 1,
                IF entry.isDir
                  THEN ConcatModules(mods, GetAllDtsModules(entryPath, fullEntryPath, entry.kids, s))
                ELSE IF IsModuleFile(entry.name)
                  THEN Append(mods, [modulePath |-> ModulePathOf(entryPath),
                                     fullEntryPath |-> fullEntryPath])
                ELSE mods)

\* readdirSync(fullPath) and statSync(fullEntryPath): the call returns, or
\* throws the error of the operation the filesystem refuses
ReaddirSync(path, flt) == [ok |-> flt # FsOp("readdir", path), error |-> FsOp("readdir", path)]
StatSync(path, flt)    == [ok |-> flt # FsOp("stat", path), error |-> FsOp("stat", path)]

\* the error getAllDtsModules throws, NoError when it returns: nothing in it
\* catches, so the first throw of readdirSync or statSync, in the order the
\* loop makes the calls, leaves every enclosing call
RECURSIVE ScanErrorIn(_, _, _)
RECURSIVE ScanErrorFrom(_, _, _, _)
ScanErrorIn(path, listing, flt) ==
    IF ~ReaddirSync(path, flt).ok THEN ReaddirSync(path, flt).error
    ELSE ScanErrorFrom(path, listing, flt, 1)
ScanErrorFrom(path, listing, flt, i) ==
    IF i > Len(listing) THEN NoError
    ELSE LET entry == listing[i]
             fullEntryPath == Append(path, entry.name)
             stat == StatSync(fullEntryPath, flt)
             below == IF stat.ok /\ entry.isDir
                        THEN ScanErrorIn(fullEntryPath, entry.kids, flt)
                        ELSE NoError
         IN IF ~stat.ok THEN stat.error
            ELSE IF below # NoError THEN below
            ELSE ScanErrorFrom(path, listing, flt, i + 1)

\* variant: the scan wrapped in try/catch, its error dropped
ScanErrorCaught(listing, flt) == NoError
\* the error of the top-level call getAllDtsModules()
ScanError(listing, flt) == ScanErrorIn(<<>>, listing, flt)

\* ExportKind of one module
KindOf(snapshot, m) ==
    IF HasDefaultExport(snapshot, m.fullEntryPath) THEN "Default" ELSE "Namespace"

\* one line of the mapping type:
\*   <indent>"<key>": (typeof import("<import>"))["default"];    form "default"
\*   <indent>"<key>": typeof import("<import>");                form "namespace"
MapLine(indent, key, kind) ==
    [form |-> IF kind = "Default" THEN "default" ELSE "namespace",
     indent |-> indent, key |-> key, import |-> key]
FixedLine(text) == [form |-> text, indent |-> "", key |-> <<>>, import |-> <<>>]

HeaderLine  == FixedLine("export type ArcGISModuleMap = {")
FooterLine  == FixedLine("};")
GlobalBlock == FixedLine("declare global { const $arcgis: {...}; interface Window {...} }")

\* the lines yielded for one module
LinesForSingleKey(t, m, kind) ==
    << MapLine("  ", PkgPrefix \o m.modulePath, kind) >>
LinesForPair(t, m, kind) ==
    LET indent == IF t = GenerateDts THEN "\t" ELSE "  "
    IN << MapLine(indent, PkgPrefix \o m.modulePath, kind),
          MapLine(indent, PkgPrefix \o m.modulePath \o JsSuffix, kind) >>
LinesFor(t, m, kind) ==
    IF t = GenerateMapOld THEN LinesForSingleKey(t, m, kind) ELSE LinesForPair(t, m, kind)

\* how many lines one module gets
KeysPerModule(t) == IF t = GenerateMapOld THEN 1 ELSE 2

\* ...enumerateModules(modules) / ...modules.map(...)
RECURSIVE EnumerateModules(_, _, _, _)
EnumerateModules(t, mods, ks, i) ==
    IF i > Len(mods) THEN <<>>
    ELSE LinesFor(t, mods[i], ks[i]) \o EnumerateModules(t, mods, ks, i + 1)

\* const lines = [ ... ]
BuildLines(t, mods, ks) ==
    <<HeaderLine>> \o EnumerateModules(t, mods, ks, 1) \o <<FooterLine>>
        \o (IF t = GenerateDts THEN <<GlobalBlock>> ELSE <<>>)

\* the console.error lines of hasDefaultExport, in module order
RECURSIVE ReadErrors(_, _, _)
ReadErrors(snapshot, mods, i) ==
    IF i > Len(mods) THEN <<>>
    ELSE (IF ReadFileSync(snapshot, mods[i].fullEntryPath).ok
            THEN <<>> ELSE << [error |-> "read", path |-> mods[i].fullEntryPath] >>)
         \o ReadErrors(snapshot, mods, i + 1)

\* const modules = getAllDtsModules();  (and console.table(modules))
\* An error thrown by the scan is uncaught at top level: the process ends
\* there, before any later statement.
GenScan ==
    /\ pc = "start"
    /\ err' = ScanError(fs, fault)
    /\ modules' = IF err' = NoError THEN GetAllDtsModules(<<>>, <<>>, fs, sep) ELSE modules
    /\ summary' = IF err' = NoError /\ tool = GenerateMap
                    THEN Append(summary, [stream |-> "stdout", what |-> "table",
                                          count |-> Len(modules')])
                    ELSE summary
    /\ pc' = IF err' = NoError THEN "scanned" ELSE "crashed"
    /\ UNCHANGED <<loaderVars, callVars, tool, sep, fs, run, kinds, lines, outFile,
                   prevOut, diag, fault>>

\* const lines = [...]: every module's file is read and classified
GenEmit ==
    /\ pc = "scanned"
    /\ kinds' = [i \in 1..Len(modules) |-> KindOf(fs, modules[i])]
    /\ lines' = BuildLines(tool, modules, kinds')
    /\ diag' = diag \o ReadErrors(fs, modules, 1)
    /\ pc' = "emitted"
    /\ UNCHANGED <<loaderVars, callVars, tool, sep, fs, run, modules, outFile, prevOut,
                   summary, fault, err>>

\* writeFileSync(outputFile, lines.join("\n"), "utf-8")
GenWrite ==
    /\ pc = "emitted"
    /\ outFile' = lines
    /\ pc' = "written"
    /\ UNCHANGED <<loaderVars, callVars, tool, sep, fs, run, modules, kinds, lines,
                   prevOut, diag, summary, fault, err>>

\* the summary line: stderr.write(...) or console.log(...)
GenSummary ==
    /\ pc = "written"
    /\ summary' = Append(summary,
                         [stream |-> IF tool = GenerateDts THEN "stderr" ELSE "stdout",
                          what |-> "generated", count |-> Len(modules)])
    /\ pc' = "done"
    /\ UNCHANGED <<loaderVars, callVars, tool, sep, fs, run, modules, kinds, lines,
                   outFile, prevOut, diag, fault, err>>

\* the script is started again, as a new process, over the same snapshot
GenRerun ==
    /\ pc \in {"done", "crashed"} /\ run < MaxRuns
    /\ run' = run + 1
    /\ prevOut' = outFile
    /\ modules' = <<>> /\ kinds' = <<>> /\ lines' = <<>> /\ diag' = <<>> /\ summary' = <<>>
    /\ err' = NoError
    /\ pc' = "start"
    /\ UNCHANGED <<loaderVars, callVars, tool, sep, fs, outFile, fault>>

LoaderIdle ==
    /\ g0 = [present |-> FALSE, binding |-> Undefined, import |-> Undefined]
    /\ present = FALSE /\ binding = Undefined /\ heap = <<>>
    /\ evals = 0 /\ writes = 0 /\ exported = <<>>
    /\ CallNone

InitGen ==
    /\ LoaderIdle
    /\ tool \in Tools
    /\ sep \in Separators
    /\ fs \in Snapshots
    /\ pc = "start" /\ run = 1
    /\ modules = <<>> /\ kinds = <<>> /\ lines = <<>>
    /\ outFile = NoFile /\ prevOut = NoFile
    /\ diag = <<>> /\ summary = <<>>
    /\ fault = NoFault /\ err = NoError

NextGen == GenScan \/ GenEmit \/ GenWrite \/ GenSummary \/ GenRerun

SpecGen == InitGen /\ [][NextGen]_vars

---------------------------------------------------------------------------
(* The generator over a filesystem that refuses one operation: listing the *)
(* root or a subdirectory (EACCES, ENOENT), or the stat of one entry (a    *)
(* dangling link), with the destination file absent or left by an older    *)
(* run.  The content of files plays no part in listing and stat, so the    *)
(* snapshots here hold readable files of one text.                         *)

\* the paths of the directories of a snapshot, below the root
RECURSIVE DirPaths(_)
DirPaths(listing) ==
    UNION { IF listing[i].isDir
              THEN { <<listing[i].name>> }
                     \cup { <<listing[i].name>> \o q : q \in DirPaths(listing[i].kids) }
              ELSE {}
            : i \in DOMAIN listing }

\* the paths of all entries of a snapshot
RECURSIVE EntryPaths(_)
EntryPaths(listing) ==
    UNION { { <<listing[i].name>> }
              \cup { <<listing[i].name>> \o q : q \in EntryPaths(listing[i].kids) }
            : i \in DOMAIN listing }

\* the calls getAllDtsModules makes on a snapshot, each of which can throw
FaultPoints(listing) ==
    { FsOp("readdir", <<>>) }
        \cup { FsOp("readdir", p) : p \in DirPaths(listing) }
        \cup { FsOp("stat", p) : p \in EntryPaths(listing) }

PlainText == <<"/", "/", "e", "x", "p", "o", "r", "t", " ", "d", "e", "f", "a", "u", "l", "t">>
RECURSIVE IsPlain(_)
IsPlain(listing) ==
    \A i \in DOMAIN listing :
        IF listing[i].isDir THEN IsPlain(listing[i].kids)
        ELSE listing[i].readable /\ listing[i].text = PlainText
PlainSnapshots == { s \in Snapshots : IsPlain(s) }

\* the destination file as an older run left it
StaleFile == << FixedLine("an older ArcGISModuleMap") >>

InitFault ==
    /\ LoaderIdle
    /\ tool \in Tools
    /\ sep \in Separators
    /\ fs \in PlainSnapshots
    /\ fault \in { NoFault } \cup FaultPoints(fs)
    /\ pc = "start" /\ run = 1
    /\ modules = <<>> /\ kinds = <<>> /\ lines = <<>>
    /\ outFile \in { NoFile, StaleFile } /\ prevOut = outFile
    /\ diag = <<>> /\ summary = <<>>
    /\ err = NoError

SpecFault == InitFault /\ [][NextGen]_vars

---------------------------------------------------------------------------
(* Claims about the generators (checked under SpecGen).                    *)

\* every path of names in a snapshot
RECURSIVE AllPaths(_)
AllPaths(listing) ==
    UNION { { <<listing[i].name>> }
              \cup { <<listing[i].name>> \o q : q \in AllPaths(listing[i].kids) }
            : i \in DOMAIN listing }

\* the positions, directory by directory, that lead to a path
RECURSIVE IndexPath(_, _)
IndexPath(listing, path) ==
    LET i == CHOOSE i \in DOMAIN listing : listing[i].name = Head(path)
    IN IF Len(path) = 1 THEN <<i>> ELSE <<i>> \o IndexPath(listing[i].kids, Tail(path))

\* a comes before b in a depth-first walk that visits each directory's
\* entries in listing order
DepthFirstBefore(a, b) ==
    \E k \in 1..Len(a) :
        /\ k <= Len(b)
        /\ \A j \in 1..(k - 1) : a[j] = b[j]
        /\ a[k] < b[k]

\* the names of a path joined with forward slashes
RECURSIVE JoinSlash(_)
JoinSlash(path) ==
    IF Len(path) = 1 THEN path[1] ELSE path[1] \o <<Slash>> \o JoinSlash(Tail(path))

NameEndsInDts(name) == \E k \in 1..Len(name) : SubSeq(name, k, Len(name)) = DtsSuffix
Last(path) == path[Len(path)]

TextHasMarker(text) ==
    \E k \in 0..Len(text) :
        /\ k + Len(Marker) <= Len(text)
        /\ \A j \in 1..Len(Marker) : text[k + j] = Marker[j]

Scanned  == pc \in {"scanned", "emitted", "written", "done"}
Emitted  == pc \in {"emitted", "written", "done"}
Written  == pc \in {"written", "done"}

ReturnedPaths == { modules[i].fullEntryPath : i \in DOMAIN modules }

\* the lines of the mapping type's body in the written file
MapLinesOf(file) == SelectSeq(file, LAMBDA l : l.form \in {"default", "namespace"})

\* C6: in the written file every module entry has exactly two keys, its bare
\* path "@arcgis/core/<modulePath>" and that path with ".js", as a pair and
\* with the same value form.
C6_TwoKeysPerModule ==
    Written =>
        LET body == MapLinesOf(outFile) IN
        /\ Len(body) = 2 * Len(modules)
        /\ \A i \in DOMAIN modules :
              /\ body[2 * i - 1].key = PkgPrefix \o modules[i].modulePath
              /\ body[2 * i].key = PkgPrefix \o modules[i].modulePath \o JsSuffix
              /\ body[2 * i - 1].import = body[2 * i - 1].key
              /\ body[2 * i].import = body[2 * i].key
              /\ body[2 * i - 1].form = body[2 * i].form

\* the lines emitted for the i-th module
ModuleLines(i) ==
    SubSeq(lines, 2 + (i - 1) * KeysPerModule(tool), 1 + i * KeysPerModule(tool))

LineFormsFollowKinds ==
    \A i \in DOMAIN modules :
        \A j \in DOMAIN ModuleLines(i) :
            /\ ModuleLines(i)[j].form = "default" <=> kinds[i] = "Default"
            /\ ModuleLines(i)[j].form = "namespace" <=> kinds[i] = "Namespace"

\* C7 (as stated): every scanned declaration file is classified Default
\* exactly when its text contains "export default", Namespace otherwise, and
\* its lines have the default form exactly when it is classified Default.
C7_Original ==
    Emitted =>
        /\ Len(kinds) = Len(modules)
        /\ \A i \in DOMAIN modules :
              LET e == EntryAt(fs, modules[i].fullEntryPath) IN
              /\ kinds[i] = "Default" <=> TextHasMarker(e.text)
              /\ kinds[i] = "Namespace" <=> ~TextHasMarker(e.text)
        /\ LineFormsFollowKinds

\* C7 (amended): every scanned declaration file that can be read is
\* classified Default exactly when its text contains "export default",
\* Namespace otherwise; one that cannot be read is classified Namespace; the
\* lines of a module have the default form exactly when it is classified
\* Default and the namespace form exactly when it is classified Namespace.
C7_ClassifiedByMarker ==
    Emitted =>
        /\ Len(kinds) = Len(modules)
        /\ \A i \in DOMAIN modules :
              LET e == EntryAt(fs, modules[i].fullEntryPath) IN
              /\ e.readable => (kinds[i] = "Default" <=> TextHasMarker(e.text))
              /\ e.readable => (kinds[i] = "Namespace" <=> ~TextHasMarker(e.text))
              /\ ~e.readable => kinds[i] = "Namespace"
        /\ LineFormsFollowKinds

\* one file with the marker inside a comment, one with a near miss
C7_Witness ==
    /\ pc = "done" /\ Len(modules) = 2
    /\ kinds = <<"Default", "Namespace">>
    /\ \A i \in DOMAIN modules : EntryAt(fs, modules[i].fullEntryPath).readable
    /\ TextHasMarker(EntryAt(fs, modules[1].fullEntryPath).text)
    /\ ~StartsWith(EntryAt(fs, modules[1].fullEntryPath).text, Marker)

\* C8: a second run over the same snapshot writes the file the first run
\* wrote; the modules, and their lines in the file, are in depth-first order
\* (a subdirectory's modules stand where the subdirectory stands in its
\* parent's listing).
C8_DeterministicDepthFirst ==
    /\ (run >= 2 /\ Written) => outFile = prevOut
    /\ Scanned =>
          \A i, j \in DOMAIN modules :
              i < j => DepthFirstBefore(IndexPath(fs, modules[i].fullEntryPath),
                                        IndexPath(fs, modules[j].fullEntryPath))
    /\ Written =>
          /\ Len(MapLinesOf(outFile)) = KeysPerModule(tool) * Len(modules)
          /\ \A i \in DOMAIN modules :
                MapLinesOf(outFile)[(i - 1) * KeysPerModule(tool) + 1].key
                    = PkgPrefix \o modules[i].modulePath

\* second run done; a subdirectory's module precedes a later file's
C8_Witness ==
    /\ run = 2 /\ pc = "done" /\ outFile = prevOut /\ outFile # NoFile
    /\ Len(fs) = 2 /\ fs[1].isDir /\ ~fs[2].isDir
    /\ Len(modules) = 2
    /\ Len(modules[1].fullEntryPath) = 2 /\ Len(modules[2].fullEntryPath) = 1

ExpectedModulePath(path) ==
    SubSeq(JoinSlash(path), 1, Len(JoinSlash(path)) - Len(DtsSuffix))

\* C10 (as stated): the scanner returns an entry exactly for the files whose
\* name ends in ".d.ts" other than the index.d.ts at the scanned root, each
\* once, with modulePath the relative path, suffix stripped, separators as
\* forward slashes, directories recursed into at every depth.
C10_Original ==
    Scanned =>
        /\ ReturnedPaths = { q \in AllPaths(fs) : /\ ~EntryAt(fs, q).isDir
                                                   /\ NameEndsInDts(Last(q))
                                                   /\ q # <<IndexDts>> }
        /\ Cardinality(ReturnedPaths) = Len(modules)
        /\ \A i \in DOMAIN modules :
              modules[i].modulePath = ExpectedModulePath(modules[i].fullEntryPath)

\* C10 (amended): ... other than the files named index.d.ts, in whichever
\* directory they are ...
C10_AllDtsButIndexFiles ==
    Scanned =>
        /\ ReturnedPaths = { q \in AllPaths(fs) : /\ ~EntryAt(fs, q).isDir
                                                   /\ NameEndsInDts(Last(q))
                                                   /\ Last(q) # IndexDts }
        /\ Cardinality(ReturnedPaths) = Len(modules)
        /\ \A i \in DOMAIN modules :
              modules[i].modulePath = ExpectedModulePath(modules[i].fullEntryPath)

\* win32: a subdirectory's index.d.ts is skipped, its sibling is returned
\* with forward slashes
C10_Witness ==
    /\ Scanned /\ sep = Backslash
    /\ \E q \in AllPaths(fs) : Len(q) = 2 /\ Last(q) = IndexDts /\ q \notin ReturnedPaths
    /\ \E i \in DOMAIN modules :
          /\ Len(modules[i].fullEntryPath) = 2
          /\ Slash \in { modules[i].modulePath[k] : k \in DOMAIN modules[i].modulePath }

\* the scanned modules whose file cannot be read
UnreadableModules ==
    { i \in DOMAIN modules : ~EntryAt(fs, modules[i].fullEntryPath).readable }

\* the keys of the mapping type in a written file, in line order
KeysOf(file) == [k \in DOMAIN MapLinesOf(file) |-> MapLinesOf(file)[k].key]

HasKey(file, key, form) ==
    \E k \in DOMAIN MapLinesOf(file) :
        MapLinesOf(file)[k].key = key /\ MapLinesOf(file)[k].form = form

\* C11: when a scanned file cannot be read, a diagnostic line is written for
\* it, it is classified Namespace, and the run goes on: the file is written
\* and holds the key pair (bare and ".js") of that module and of every other
\* scanned module.
C11_FailsSoftWithKeyPairs ==
    /\ (Emitted /\ UnreadableModules # {}) =>
          \A i \in UnreadableModules :
              /\ kinds[i] = "Namespace"
              /\ \E d \in DOMAIN diag :
                    diag[d] = [error |-> "read", path |-> modules[i].fullEntryPath]
    /\ (Written /\ UnreadableModules # {}) =>
          /\ outFile = lines
          /\ \A i \in DOMAIN modules :
                LET form == IF kinds[i] = "Default" THEN "default" ELSE "namespace" IN
                /\ HasKey(outFile, PkgPrefix \o modules[i].modulePath, form)
                /\ HasKey(outFile, PkgPrefix \o modules[i].modulePath \o JsSuffix, form)

\* C12: when the root or a subdirectory cannot be listed, or an entry cannot
\* be stat'ed, the run ends at the scan with that error: no modules are
\* returned, nothing is emitted, the destination file stays as it was when
\* the run started, and no summary line is written.  A run ends this way
\* only on such an error.
C12_ScanFailureAborts ==
    /\ fault # NoFault =>
          /\ pc \in {"start", "crashed"}
          /\ modules = <<>> /\ kinds = <<>> /\ lines = <<>>
          /\ diag = <<>> /\ summary = <<>>
          /\ outFile = prevOut
          /\ outFile \in { NoFile, StaleFile }
    /\ pc = "crashed" => fault # NoFault /\ err = fault
    /\ pc = "start" => err = NoError

\* the listing of a subdirectory fails after a module file was already
\* pushed, with an older destination file in place
C12_Witness ==
    /\ pc = "crashed" /\ run = 1
    /\ Len(fs) = 2 /\ ~fs[1].isDir /\ IsModuleFile(fs[1].name) /\ fs[2].isDir
    /\ err = FsOp("readdir", <<fs[2].name>>)
    /\ outFile = StaleFile

\* the two keys of the i-th scanned module
KeyPairOf(i) ==
    { PkgPrefix \o modules[i].modulePath, PkgPrefix \o modules[i].modulePath \o JsSuffix }

\* C13: no key appears twice in the mapping type: the key pairs of two
\* distinct scanned modules are disjoint, and the written file holds
\* 2 x (module count) lines with as many distinct keys.
C13_NoDuplicateKeys ==
    /\ Scanned =>
          \A i, j \in DOMAIN modules : i # j => KeyPairOf(i) \cap KeyPairOf(j) = {}
    /\ Written =>
          /\ \A k, l \in DOMAIN KeysOf(outFile) :
                k # l => KeysOf(outFile)[k] # KeysOf(outFile)[l]
          /\ Cardinality({ KeysOf(outFile)[k] : k \in DOMAIN KeysOf(outFile) })
                = 2 * Len(modules)
===========================================================================
